---------------------------- MODULE Spec2Model ----------------------------
(***************************************************************************)
(* Model of src/SEIR_Model/working_bubble.py: the SEIR compartment model   *)
(* (vac_freq, health_cap_effect, deriv, the initial vector y0), the        *)
(* integration of the module body, and the Bokeh callbacks update_data,    *)
(* animate_update and animate; of the slider callback of                   *)
(* src/reaction_kinetics/sliders_reaction_kinetics.py; and of the control  *)
(* callback of                                                             *)
(* src/catalysis_visualization/catalysis_data_interactive_visualization.py.*)
(* The three scripts are three documents; each has its own variables and   *)
(* its own specification, and no action of one touches another's.          *)
(*                                                                         *)
(* Numbers.  The program computes in floating point; the model computes    *)
(* the same expressions exactly, on integers:                              *)
(*   - populations are whole persons,                                      *)
(*   - every rate (1/day) is held in millionths: 0.04 is 40000,            *)
(*   - a derivative is held in millionths of a person per day,             *)
(*   - the health-capacity multipliers are held in tenths (1.5 is 15),     *)
(*   - the vaccine efficacy is held in hundredths (0.98 is 98).            *)
(* Each division below is exact for the values the module sets (N = 1000   *)
(* divides every contact rate, 10 divides nat_death and death_rate_hosp,   *)
(* 100 divides v_freq * v_eff).                                            *)
(***************************************************************************)
EXTENDS Integers, Sequences, FiniteSets, TLC

Micro == 1000 * 1000      \* one person/day in derivative units
HceDen == 2 * 5           \* the multipliers of health_cap_effect are tenths
EffDen == 10 * 10         \* v_eff is in hundredths

-----------------------------------------------------------------------------
(* Module-level parameters, working_bubble.py lines 89-124.                *)

N == 1000
Is_nh0 == 1
Is_h0 == 0
Ia_uk0 == 1
Ia_k0 == 0
R0 == 0
D0 == 0
E0 == 0
beta_S_h == 1000
beta_S_nh == 100000
beta_A_uk == 350000
beta_A_k == 100000
gamma == 40000
gamma_hosp == 40000
death_rate_S == 4000
death_rate_hosp == 8000
nat_death == 200
nat_birth == 1000
E_to_I_forS == 500000
E_to_I_forA == 100000
return_rate == 20
sd == 1
v_freq == 0
v_eff == 98
test_rate_inc == 1
hosp == 100000
health_capacity == 150
hcd == 10
hcr == 10
t_vac == 200

\* t = np.linspace(0, 365, 365): 365 sample times from 0 to 365 inclusive.
NumSamples == 365
Horizon == 365

\* The k-th sample time (k = 0 .. NumSamples-1) in whole days: 365*k/364.
t_eval(k) == (Horizon * k) \div (NumSamples - 1)

\* time_slider = Slider(start=0, end=365, value=0, step=1), line 170
SliderEnd == 365
\* the threshold of animate_update, line 194
AnimateFrom == 365
\* practice_sizes, line 27: the node sizes before the first update
practice_sizes == <<5, 10, 15, 20, 25, 30, 35, 40>>

-----------------------------------------------------------------------------
(* Bounds of the model.                                                    *)

MaxPop == 1        \* compartment values tried in a call are 0 .. MaxPop
MaxInit == 1       \* initial compartment values tried are 0 .. MaxInit
MaxFailAt == 2     \* a failing solver stops after 1 .. MaxFailAt samples
MaxPick == 1       \* slider values tried: 0 .. MaxPick, 364, 365
MaxOver == 1       \* timer arguments tried: 0, 365, 366 .. 365 + MaxOver
MaxClicks == 3     \* Play clicks modelled (periodic callbacks created)
MaxSteps == 1      \* values tried of the time slider of the
                   \* reaction-kinetics dashboard: start, start + step, ..,
                   \* start + MaxSteps*step, and end

VARIABLES
    cfg,            \* the module-level configuration: [args, init, env]
    pc,             \* where the module body is: "configured", "integrating",
                    \* "serving" (the document is built), "crashed"
    crash_exc,      \* the exception that ended the module body, or "none"
    ret_y,          \* ret.y so far: the samples emitted, each <<S, .., D>>
    ret_success,    \* ret.success: "running", "yes", "no"
    big_array,      \* S, E, .., D of line 166, as the sequence of samples
    time_slider,    \* time_slider.value
    sizes,          \* current_source.data['sizes'], doubled (S[t]/2 is exact)
    node_size,      \* the node renderer's 'size' column, doubled
    button_label,   \* button.label: "Play" or "Pause"
    callback_id,    \* the global callback_id; 0 is None
    callbacks,      \* the periodic callbacks registered with the document
    next_id,        \* the callbacks created so far
    last_event,     \* the last handler run and how it ended
    call_fn, call_in, call_out,  \* one call of a function of the module
    rk_value,       \* reaction kinetics: the value of each of the 5 sliders
    rk_source,      \* reaction kinetics: source.data, the samples <<A, B, C>>
    source_vbar,    \* reaction kinetics: source_vbar.data['vbar_top']
    cat_value,      \* catalysis: the value of each of the 7 controls
    cat_source,     \* catalysis: source.data, the columns of the scatter
    cat_plot        \* catalysis: the axis labels, the title, the histograms

vars == <<cfg, pc, crash_exc, ret_y, ret_success, big_array, time_slider,
          sizes, node_size, button_label, callback_id, callbacks, next_id,
          last_event, call_fn, call_in, call_out,
          rk_value, rk_source, source_vbar,
          cat_value, cat_source, cat_plot>>

prog_vars == <<cfg, pc, crash_exc, ret_y, ret_success, big_array, time_slider,
               sizes, node_size, button_label, callback_id, callbacks,
               next_id, last_event>>
call_vars == <<call_fn, call_in, call_out>>
rk_vars == <<rk_value, rk_source, source_vbar>>
cat_vars == <<cat_value, cat_source, cat_plot>>
dash_vars == <<rk_vars, cat_vars>>

-----------------------------------------------------------------------------
(* The outcome of a Python call: a value, or the exception it raised.      *)

Return(v) == [exc |-> "none", val |-> v]
Raise(e) == [exc |-> e, val |-> <<>>]

-----------------------------------------------------------------------------
(* vac_freq, lines 126-132.                                                *)

vac_freq(p_t_vac, total_time) ==
    IF total_time < p_t_vac THEN 0
    ELSE IF total_time >= p_t_vac THEN 10000
    ELSE 0

(* health_cap_effect, lines 134-142.  hcd and hcr are assigned in the      *)
(* function, so Python makes them local names: when neither branch runs    *)
(* (Is_h = health_capacity) line 141 reads an unbound local and raises     *)
(* UnboundLocalError; the module-level hcd, hcr are never read.            *)

\* a variant that leaves the module-level hcd, hcr in force above capacity
health_cap_effect_stale(p_health_capacity, Is_h) ==
    IF Is_h < p_health_capacity THEN Return(<<10, 10>>)
    ELSE IF Is_h > p_health_capacity THEN Return(<<hcd, hcr>>)
    ELSE Raise("UnboundLocalError")

health_cap_effect(p_health_capacity, Is_h) ==
    IF Is_h < p_health_capacity THEN Return(<<10, 10>>)
    ELSE IF Is_h > p_health_capacity THEN Return(<<15, 7>>)
    ELSE Raise("UnboundLocalError")

-----------------------------------------------------------------------------
(* deriv, lines 146-159.  args is the tuple the caller passes after (t, y) *)
(* as a record of the parameter names.  nat_birth, v_eff and hosp are not  *)
(* parameters: deriv reads them from the module namespace when it runs.    *)
(* env is that namespace, the record of the three module-level values in   *)
(* force at the call.                                                      *)

ModuleEnv == [nat_birth |-> nat_birth, v_eff |-> v_eff, hosp |-> hosp]

Args == [N |-> N, beta_A_uk |-> beta_A_uk, beta_A_k |-> beta_A_k,
         beta_S_nh |-> beta_S_nh, beta_S_h |-> beta_S_h, gamma |-> gamma,
         gamma_hosp |-> gamma_hosp, nat_death |-> nat_death,
         death_rate_S |-> death_rate_S, death_rate_hosp |-> death_rate_hosp,
         E_to_I_forA |-> E_to_I_forA, E_to_I_forS |-> E_to_I_forS,
         return_rate |-> return_rate, sd |-> sd,
         test_rate_inc |-> test_rate_inc, t_vac |-> t_vac,
         health_capacity |-> health_capacity]

\* line 149: test_rate = .001*t*test_rate_inc
test_rate(t, args) == 1000 * t * args.test_rate_inc

\* beta * sd * S * I / N for one contact channel (sd is 1 where the code
\* has no sd factor)
Contact(beta, sdf, S, I, pN) == ((beta * sdf * S) \div pN) * I

\* a variant that reads the module-level contact rates, not its arguments
Exposure_module(y, args) ==
      Contact(beta_S_nh, args.sd, y[1], y[5], args.N)
    + Contact(beta_S_h, 1, y[1], y[6], args.N)
    + Contact(beta_A_uk, args.sd, y[1], y[3], args.N)
    + Contact(beta_A_k, args.sd, y[1], y[4], args.N)

\* lines 151-152: the new exposures, the flow from S to E
Exposure(y, args) ==
      Contact(args.beta_S_nh, args.sd, y[1], y[5], args.N)
    + Contact(args.beta_S_h, 1, y[1], y[6], args.N)
    + Contact(args.beta_A_uk, args.sd, y[1], y[3], args.N)
    + Contact(args.beta_A_k, args.sd, y[1], y[4], args.N)

\* a variant without line 148: v_freq is the module-level value
Vaccinated_module(env, t, y, args) ==
    (v_freq * env.v_eff * y[1]) \div EffDen

\* v_freq*v_eff*S with v_freq = vac_freq(t_vac, t), lines 148, 151, 157
Vaccinated(env, t, y, args) ==
    (vac_freq(args.t_vac, t) * env.v_eff * y[1]) \div EffDen

dSdt(env, t, y, args) ==
    - Exposure(y, args) - (args.nat_death * y[1])
    + (env.nat_birth * (args.N - y[8])) + (args.return_rate * y[7])
    - Vaccinated(env, t, y, args)

dEdt(t, y, args) ==
    Exposure(y, args) - (args.E_to_I_forA * y[2]) - (args.E_to_I_forS * y[2])
    - (args.nat_death * y[2])

dIa_uk_dt(t, y, args) ==
    (args.E_to_I_forA * y[2]) - (args.nat_death * y[3]) - (args.gamma * y[3])
    - (test_rate(t, args) * y[3])

dIa_k_dt(t, y, args) ==
    (test_rate(t, args) * y[3]) - (args.nat_death * y[4]) - (args.gamma * y[4])

dIs_nh_dt(env, t, y, args) ==
    (args.E_to_I_forS * y[2]) - (args.nat_death * y[5])
    - (args.death_rate_S * y[5]) - (args.gamma * y[5]) - (env.hosp * y[5])

\* line 156; hce is the pair health_cap_effect returned
dIs_h_dt(env, t, y, args, hce) ==
    (env.hosp * y[5]) - ((hce[1] * args.nat_death * y[6]) \div HceDen)
    - ((hce[2] * args.death_rate_hosp * y[6]) \div HceDen)
    - (args.gamma_hosp * y[6])

dRdt(env, t, y, args) ==
    (args.gamma * (y[3] + y[4] + y[5])) + (args.gamma_hosp * y[6])
    - (args.nat_death * y[7]) - (args.return_rate * y[7])
    + Vaccinated(env, t, y, args)

\* a variant that takes the births of line 151 out of the deaths
dDdt_births(t, y, args) ==
    args.nat_death * (y[1] + y[2] + y[3] + y[4] + y[5] + y[6] + y[7])
    + (args.death_rate_S * y[5]) + (args.death_rate_hosp * y[6])
    - (nat_birth * (args.N - y[8]))

dDdt(t, y, args) ==
    args.nat_death * (y[1] + y[2] + y[3] + y[4] + y[5] + y[6] + y[7])
    + (args.death_rate_S * y[5]) + (args.death_rate_hosp * y[6])

deriv(env, t, y, args) ==
    LET hce == health_cap_effect(args.health_capacity, y[6])
    IN  IF hce.exc # "none" THEN Raise(hce.exc)
        ELSE Return(<<dSdt(env, t, y, args), dEdt(t, y, args),
                      dIa_uk_dt(t, y, args), dIa_k_dt(t, y, args),
                      dIs_nh_dt(env, t, y, args),
                      dIs_h_dt(env, t, y, args, hce.val),
                      dRdt(env, t, y, args), dDdt(t, y, args)>>)

-----------------------------------------------------------------------------
(* The initial conditions, lines 89-99 and 162.  init is the record of the *)
(* seven initial values the module sets and of N.                          *)

Init0 == [N |-> N, Is_nh0 |-> Is_nh0, Is_h0 |-> Is_h0, Ia_uk0 |-> Ia_uk0,
          Ia_k0 |-> Ia_k0, R0 |-> R0, D0 |-> D0, E0 |-> E0]

\* a variant with the sign of the last term slipped
S0_plus(init) ==
    init.N - init.Is_nh0 - init.Is_h0 - init.Ia_uk0 - init.Ia_k0
    - init.R0 - init.D0 + init.E0

S0(init) ==
    init.N - init.Is_nh0 - init.Is_h0 - init.Ia_uk0 - init.Ia_k0
    - init.R0 - init.D0 - init.E0

y0(init) ==
    <<S0(init), init.E0, init.Ia_uk0, init.Ia_k0, init.Is_nh0, init.Is_h0,
      init.R0, init.D0>>

-----------------------------------------------------------------------------
(* The configurations tried.  The module sets one configuration by         *)
(* literals (Args, Init0); the others are the same literals edited.        *)

NoTransmission(args) ==
    [args EXCEPT !.beta_S_nh = 0, !.beta_S_h = 0, !.beta_A_uk = 0,
                 !.beta_A_k = 0]

\* what section 7 of the specification calls a valid configuration
ValidConfig(c) ==
    /\ \A f \in {"beta_A_uk", "beta_A_k", "beta_S_nh", "beta_S_h", "gamma",
                 "gamma_hosp", "nat_death", "death_rate_S", "death_rate_hosp",
                 "E_to_I_forA", "E_to_I_forS", "return_rate", "sd",
                 "test_rate_inc"} : c.args[f] >= 0
    /\ c.args.health_capacity > 0
    /\ Horizon > 0
    /\ NumSamples > 0

ArgChoices ==
    {Args, NoTransmission(Args), [Args EXCEPT !.sd = 0],
     [Args EXCEPT !.health_capacity = 0],
     [Args EXCEPT !.health_capacity = -1]}

InitChoices ==
    {[Init0 EXCEPT !.E0 = e, !.Is_nh0 = i] : e \in 0..MaxInit, i \in 0..MaxInit}

Configs == [args : ArgChoices, init : InitChoices, env : {ModuleEnv}]

-----------------------------------------------------------------------------
(* The values of a slider that are tried: the first ones from start, the   *)
(* value it is created with, and end.                                      *)

SliderValues(w, n) ==
    {w.start + (i * w.step) : i \in 0..n} \cup {w.value, w.end}

-----------------------------------------------------------------------------
(* The reaction-kinetics dashboard,                                        *)
(* src/reaction_kinetics/sliders_reaction_kinetics.py.  A concentration is *)
(* held in thousandths, a rate constant in hundredths (3.0 is 300), the    *)
(* time slider in tenths of a second.  Names the SEIR module also uses     *)
(* carry the prefix rk_.                                                   *)

ConcDen == 10 * 100
KDen == 10 * 10
TimeDen == 2 * 5

\* lines 41-43
t_start == 0
t_end == 8
rk_N == 200

\* lines 47-51
order_AB_start == 1
order_BC_start == 1
k_AB_start == 300
k_BC_start == 100
params == <<order_AB_start, order_BC_start, k_AB_start, k_BC_start>>

\* lines 54-55
vec_conc_t0 == <<ConcDen, 0, 0>>

\* np.power(x, n) for a whole order n
RECURSIVE power(_, _)
power(x, n) == IF n = 0 THEN ConcDen ELSE (x * power(x, n - 1)) \div ConcDen

\* dconc_dt, lines 20-38; the result is in units of 1/(ConcDen*KDen) per s
dconc_dt(conc, t, p) ==
    LET vec_A == conc[1]
        vec_B == conc[2]
        O_AB == p[1]
        O_BC == p[2]
        k_AB == p[3]
        k_BC == p[4]
    IN  << -(k_AB * power(vec_A, O_AB)),
           (k_AB * power(vec_A, O_AB)) - (k_BC * power(vec_B, O_BC)),
           k_BC * power(vec_B, O_BC) >>

\* odeint over vec_time = linspace(t_start, t_end, N), lines 61 and 119.
\* The integrator is library code; it is modelled as the forward Euler
\* method with one step per sample.
OdeStep(conc, p) ==
    LET d == dconc_dt(conc, 0, p)
        h(i) == (d[i] * (t_end - t_start)) \div (KDen * (rk_N - 1))
    IN  <<conc[1] + h(1), conc[2] + h(2), conc[3] + h(3)>>

\* n samples from conc on: the first half of them, then the others from
\* the step after the last of the first half
RECURSIVE OdeFrom(_, _, _)
OdeFrom(conc, n, p) ==
    IF n = 1 THEN <<conc>>
    ELSE LET half == OdeFrom(conc, n \div 2, p)
         IN  half \o OdeFrom(OdeStep(half[Len(half)], p), n - (n \div 2), p)

odeint(conc0, p) == OdeFrom(conc0, rk_N, p)

\* the column int_vec_A, int_vec_B or int_vec_C of a result of odeint
Column(vec_conc_t, c) == [i \in 1..Len(vec_conc_t) |-> vec_conc_t[i][c]]

\* np.interp(x, vec_time, fp), lines 124-125: linear between the two
\* samples around x, the last sample at and beyond t_end
interp(x, fp) ==
    LET span == TimeDen * (t_end - t_start)
        pos == (x - (TimeDen * t_start)) * (rk_N - 1)
        j == pos \div span
    IN  IF j >= rk_N - 1 THEN fp[rk_N]
        ELSE fp[j + 1] + (((fp[j + 2] - fp[j + 1]) * (pos - (j * span)))
                              \div span)

\* the five sliders, lines 101-105
rk_sliders ==
    [slider_k_AB |-> [value |-> k_AB_start, start |-> 202, end |-> 800,
                      step |-> 2],
     slider_k_BC |-> [value |-> k_BC_start, start |-> 2, end |-> 200,
                      step |-> 2],
     slider_order_AB |-> [value |-> order_AB_start, start |-> 1, end |-> 5,
                          step |-> 1],
     slider_order_BC |-> [value |-> order_BC_start, start |-> 1, end |-> 5,
                          step |-> 1],
     slider_time |-> [value |-> 0, start |-> 0, end |-> 80, step |-> 1]]

rk_tried ==
    [w \in DOMAIN rk_sliders |->
        SliderValues(rk_sliders[w], IF w = "slider_time" THEN MaxSteps ELSE 1)]

\* the document after the module body, lines 61-66 and 101-105
rk_Load ==
    /\ rk_value = [w \in DOMAIN rk_sliders |-> rk_sliders[w].value]
    /\ rk_source = odeint(vec_conc_t0, params)
    /\ source_vbar = vec_conc_t0

\* a variant that integrates with the module-level params
rk_update_data_params ==
    /\ rk_source' = odeint(vec_conc_t0, params)
    /\ source_vbar' = <<interp(rk_value'.slider_time, Column(rk_source', 1)),
                        interp(rk_value'.slider_time, Column(rk_source', 2)),
                        interp(rk_value'.slider_time, Column(rk_source', 3))>>

\* update_data, lines 107-128, run after a slider took its new value
rk_update_data ==
    LET k_AB_temp == rk_value'.slider_k_AB
        k_BC_temp == rk_value'.slider_k_BC
        O_AB_temp == rk_value'.slider_order_AB
        O_BC_temp == rk_value'.slider_order_BC
        time_temp == rk_value'.slider_time
        params_temp == <<O_AB_temp, O_BC_temp, k_AB_temp, k_BC_temp>>
    IN  /\ rk_source' = odeint(vec_conc_t0, params_temp)
        /\ source_vbar' = <<interp(time_temp, Column(rk_source', 1)),
                            interp(time_temp, Column(rk_source', 2)),
                            interp(time_temp, Column(rk_source', 3))>>

\* lines 130-131: a slider whose value changes runs update_data
rk_on_change(w, new) ==
    /\ new # rk_value[w]
    /\ rk_value' = [rk_value EXCEPT ![w] = new]
    /\ rk_update_data
    /\ UNCHANGED <<prog_vars, call_vars, cat_vars>>

-----------------------------------------------------------------------------
(* The catalysis dashboard,                                                *)
(* src/catalysis_visualization/catalysis_data_interactive_visualization.py.*)
(* The dataset data/OCM-data.csv is an input of the program; the model     *)
(* reads a dataset of 32 rows, one for every way of meeting or missing     *)
(* each of the five conditions of select_data at the values the controls   *)
(* are created with.  CH4_conv, C2y and Sum_y are held in hundredths,      *)
(* error_ch4_conv in hundredths of a percent; the column 'CH4/O2' is the   *)
(* field CH4_O2.  A Python str is the sequence of its characters.          *)

Names == <<"Blank", "Mn-Na2WO4/SiO2", "Li/MgO", "La2O3">>
Metals == <<"Mn", "Na", "W", "Li", "La">>

Bit(r, k) == ((r - 1) \div (2 ^ k)) % 2

\* row r of the file, with Sum_y of line 21
CsvRow(r) ==
    LET conv == IF Bit(r, 0) = 0 THEN 2000 ELSE 1600
    IN  [Name |-> Names[((r - 1) % Len(Names)) + 1],
         M1 |-> Metals[(r % Len(Metals)) + 1],
         M2 |-> Metals[((r + 1) % Len(Metals)) + 1],
         M3 |-> Metals[((r + 2) % Len(Metals)) + 1],
         CH4_conv |-> conv,
         Sum_y |-> conv + ((conv * (IF Bit(r, 1) = 0 THEN 370 ELSE 375))
                               \div 1000),
         C2y |-> IF Bit(r, 2) = 0 THEN 400 ELSE 399,
         Temp |-> IF Bit(r, 3) = 0 THEN 800 ELSE 750,
         CH4_O2 |-> IF Bit(r, 4) = 0 THEN 6 ELSE 2,
         Ar_flow |-> 100 + r, CH4_flow |-> 200 + (r % 7), O2_flow |-> 300,
         CT |-> 400 + (r % 3), M2_mol |-> 500 + (2 * r), M3_mol |-> 600 - r,
         C2H6y |-> 10 + r, C2H4y |-> 20 + (r % 5), CO2y |-> 30 + (3 * r),
         COy |-> 40, C2s |-> 50 + (r % 2), C2H6s |-> 60 + r,
         C2H4s |-> 70 - (r % 4), CO2s |-> 80 + (r % 11), COs |-> 90 + r]

\* lines 22-23
error_ch4_conv(row) ==
    LET diff == row.Sum_y - row.CH4_conv
    IN  ((IF diff < 0 THEN -diff ELSE diff) * 10000) \div row.CH4_conv

RECURSIVE ReadCsv(_)
ReadCsv(n) ==
    IF n = 0 THEN <<>>
    ELSE Append(ReadCsv(n - 1),
                [c \in (DOMAIN CsvRow(n)) \cup {"error_ch4_conv"} |->
                    IF c = "error_ch4_conv" THEN error_ch4_conv(CsvRow(n))
                    ELSE CsvRow(n)[c]])

\* lines 13-23; the results of set_index and drop (lines 16-17) are not
\* kept, so the rows named Blank stay
df_catalysis_dataset == ReadCsv(2 ^ 5)

\* str of a whole number >= 0 and float of such a str
Digits == <<"0", "1", "2", "3", "4", "5", "6", "7", "8", "9">>

RECURSIVE str(_)
str(n) ==
    IF n < 10 THEN <<Digits[n + 1]>>
    ELSE Append(str(n \div 10), Digits[(n % 10) + 1])

RECURSIVE float(_)
float(chars) ==
    IF chars = <<>> THEN 0
    ELSE (10 * float(SubSeq(chars, 1, Len(chars) - 1)))
         + ((CHOOSE d \in 1..10 : Digits[d] = chars[Len(chars)]) - 1)

\* lines 34-39
unique_ch4_to_o2 ==
    {str(df_catalysis_dataset[i].CH4_O2) : i \in DOMAIN df_catalysis_dataset}

\* lines 41-61
axis_map_x ==
    [Argon_Flow |-> "Ar_flow", Methane_Flow |-> "CH4_flow",
     Oxygen_Flow |-> "O2_flow", Amount_of_Catalyst |-> "CT",
     M2_mol |-> "M2_mol", M3_mol |-> "M3_mol"]

axis_map_y ==
    [Ethane_y |-> "C2H6y", Ethylene_y |-> "C2H4y", CarbonDiOxide_y |-> "CO2y",
     CarbonMonoOxide_y |-> "COy", DiCarbon_s |-> "C2s", Ethane_s |-> "C2H6s",
     Ethylene_s |-> "C2H4s", CarbonDiOxide_s |-> "CO2s",
     CarbonMonoOxide_s |-> "COs"]

\* the four sliders, lines 64-71
cat_sliders ==
    [slider_methane_conversion |->
         [value |-> 2000, start |-> 100, end |-> 4600, step |-> 100],
     slider_C2y |-> [value |-> 400, start |-> 6, end |-> 2103, step |-> 10],
     slider_temp |-> [value |-> 800, start |-> 700, end |-> 900, step |-> 50],
     slider_error |->
         [value |-> 3700, start |-> 0, end |-> 10000, step |-> 50]]

\* the three selects, lines 72-77
cat_selects ==
    [select_ch4_to_o2 |-> [value |-> <<"6">>, options |-> unique_ch4_to_o2],
     select_x_axis |-> [value |-> "Argon_Flow",
                        options |-> DOMAIN axis_map_x],
     select_y_axis |-> [value |-> "CarbonDiOxide_y",
                        options |-> DOMAIN axis_map_y]]

\* a variant whose first condition is strict
select_data_strict(value) ==
    SelectSeq(df_catalysis_dataset,
              LAMBDA row :
                  /\ row.CH4_conv > value.slider_methane_conversion
                  /\ row.C2y >= value.slider_C2y
                  /\ row.Temp >= value.slider_temp
                  /\ row.error_ch4_conv <= value.slider_error
                  /\ row.CH4_O2 = float(value.select_ch4_to_o2))

\* select_data, lines 102-112; value holds the values of the controls
select_data(value) ==
    SelectSeq(df_catalysis_dataset,
              LAMBDA row :
                  /\ row.CH4_conv >= value.slider_methane_conversion
                  /\ row.C2y >= value.slider_C2y
                  /\ row.Temp >= value.slider_temp
                  /\ row.error_ch4_conv <= value.slider_error
                  /\ row.CH4_O2 = float(value.select_ch4_to_o2))

\* the column c of a frame, as a list
RECURSIVE Col(_, _)
Col(df, c) == IF df = <<>> THEN <<>> ELSE <<df[1][c]>> \o Col(Tail(df), c)

SeqMin(a) == CHOOSE m \in {a[i] : i \in DOMAIN a} :
                 \A i \in DOMAIN a : m <= a[i]
SeqMax(a) == CHOOSE m \in {a[i] : i \in DOMAIN a} :
                 \A i \in DOMAIN a : m >= a[i]

\* np.histogram(a, bins=10), lines 117, 142 and 187-190: ten equal bins
\* from the least to the greatest value, the last one closed; from 0 to 1
\* for no value and from v - 0.5 to v + 0.5 for a single value v.  The
\* eleven edges are held in tenths of the unit of a.
np_histogram(a) ==
    LET lo == IF a = <<>> THEN 0
              ELSE IF SeqMin(a) = SeqMax(a) THEN (10 * SeqMin(a)) - 5
              ELSE 10 * SeqMin(a)
        width == IF a = <<>> \/ SeqMin(a) = SeqMax(a) THEN 1
                 ELSE SeqMax(a) - SeqMin(a)
        bin(v) == IF (10 * v) >= lo + (10 * width) THEN 10
                  ELSE (((10 * v) - lo) \div width) + 1
    IN  [hist |-> [b \in 1..10 |->
                      Cardinality({i \in DOMAIN a : bin(a[i]) = b})],
         edges |-> [e \in 1..11 |-> lo + ((e - 1) * width)]]

zeros == [b \in 1..10 |-> 0]

\* the figures and the histograms before update() of line 304,
\* lines 88-158
cat_Figures ==
    LET start == [c \in DOMAIN cat_sliders \cup DOMAIN cat_selects |->
                     IF c \in DOMAIN cat_sliders THEN cat_sliders[c].value
                     ELSE cat_selects[c].value]
        h == np_histogram(Col(select_data(start),
                              axis_map_x[start.select_x_axis]))
        v == np_histogram(Col(select_data(start),
                              axis_map_y[start.select_y_axis]))
    IN  [xaxis_label |-> "", yaxis_label |-> "", title |-> "",
         hhist |-> h.hist, hedges |-> h.edges, hzeros |-> zeros,
         vhist |-> v.hist, vedges |-> v.edges, vzeros |-> zeros,
         ph_y_range_end |-> SeqMax(h.hist) * 11,
         pv_x_range_end |-> SeqMax(v.hist) * 11,
         hh |-> [top |-> h.hist, left |-> SubSeq(h.edges, 1, 10),
                 right |-> SubSeq(h.edges, 2, 11)],
         hh1 |-> [left |-> SubSeq(h.edges, 1, 10),
                  right |-> SubSeq(h.edges, 2, 11)],
         vv |-> [right |-> v.hist, bottom |-> SubSeq(v.edges, 1, 10),
                 top |-> SubSeq(v.edges, 2, 11)],
         vh1 |-> [bottom |-> SubSeq(v.edges, 1, 10),
                  top |-> SubSeq(v.edges, 2, 11)]]

\* update, lines 162-206: the source and the figures it leaves, from the
\* values of the controls and the figures it finds
update(value, plot) ==
    LET df == select_data(value)
        x_name == axis_map_x[value.select_x_axis]
        y_name == axis_map_y[value.select_y_axis]
        labelled == [plot EXCEPT !.xaxis_label = value.select_x_axis,
                                 !.yaxis_label = value.select_y_axis,
                                 !.title = "Data Exploration"]
        h == np_histogram(Col(df, x_name))
        v == np_histogram(Col(df, y_name))
    IN  [source |-> [x |-> Col(df, x_name), y |-> Col(df, y_name),
                     M1 |-> Col(df, "M1"), M2 |-> Col(df, "M2"),
                     M3 |-> Col(df, "M3"), Name |-> Col(df, "Name")],
         plot |->
             IF Len(df) = 0
             THEN [labelled EXCEPT !.hhist = plot.hzeros,
                                   !.hedges = plot.hzeros,
                                   !.vedges = plot.vzeros,
                                   !.vhist = plot.vzeros,
                                   !.hh.top = plot.hzeros,
                                   !.vv.right = plot.vzeros]
             ELSE [labelled EXCEPT
                      !.hhist = h.hist, !.hedges = h.edges,
                      !.vhist = v.hist, !.vedges = v.edges,
                      !.ph_y_range_end = SeqMax(h.hist) * 11,
                      !.pv_x_range_end = SeqMax(v.hist) * 11,
                      !.hh = [top |-> h.hist,
                              left |-> SubSeq(h.edges, 1, 10),
                              right |-> SubSeq(h.edges, 2, 11)],
                      !.hh1 = [left |-> SubSeq(h.edges, 1, 10),
                               right |-> SubSeq(h.edges, 2, 11)],
                      !.vv = [right |-> v.hist,
                              bottom |-> SubSeq(v.edges, 1, 10),
                              top |-> SubSeq(v.edges, 2, 11)],
                      !.vh1 = [bottom |-> SubSeq(v.edges, 1, 10),
                               top |-> SubSeq(v.edges, 2, 11)]]]

\* the document after the module body, update() of line 304 included
cat_Load ==
    /\ cat_value = [c \in DOMAIN cat_sliders \cup DOMAIN cat_selects |->
                       IF c \in DOMAIN cat_sliders THEN cat_sliders[c].value
                       ELSE cat_selects[c].value]
    /\ cat_source = update(cat_value, cat_Figures).source
    /\ cat_plot = update(cat_value, cat_Figures).plot

\* the values of a control that are tried: start, the value it is created
\* with and end of a slider, every ratio, and two columns for each axis
cat_tried ==
    [c \in DOMAIN cat_sliders \cup DOMAIN cat_selects |->
        IF c \in DOMAIN cat_sliders THEN SliderValues(cat_sliders[c], 0)
        ELSE IF c = "select_x_axis" THEN {"Argon_Flow", "Amount_of_Catalyst"}
        ELSE IF c = "select_y_axis" THEN {"CarbonDiOxide_y", "Ethylene_s"}
        ELSE cat_selects[c].options]

\* lines 209-212: a control whose value changes runs update
cat_on_change(c, new) ==
    /\ new # cat_value[c]
    /\ cat_value' = [cat_value EXCEPT ![c] = new]
    /\ cat_source' = update(cat_value', cat_plot).source
    /\ cat_plot' = update(cat_value', cat_plot).plot
    /\ UNCHANGED <<prog_vars, call_vars, rk_vars>>

-----------------------------------------------------------------------------
(* solve_ivp, line 165.  The solver is library code.  It is modelled as    *)
(* the forward Euler method on whole persons with a step of one day (the   *)
(* samples of t are 365/364 days apart): every compartment moves by the    *)
(* derivative deriv returned, rounded away from zero, so an increment has  *)
(* the sign of the derivative.  An exception of deriv leaves solve_ivp     *)
(* and ends the module body.  A solver that cannot complete returns a      *)
(* result with success False whose y holds the samples reached.            *)

RoundAway(d) ==
    IF d >= 0 THEN (d + Micro - 1) \div Micro
    ELSE -((Micro - 1 - d) \div Micro)

EulerStep(y, d) ==
    <<y[1] + RoundAway(d[1]), y[2] + RoundAway(d[2]), y[3] + RoundAway(d[3]),
      y[4] + RoundAway(d[4]), y[5] + RoundAway(d[5]), y[6] + RoundAway(d[6]),
      y[7] + RoundAway(d[7]), y[8] + RoundAway(d[8])>>

\* start_vals / new_dict, lines 171, 187, 195: twice the displayed sizes
Doubled(s) ==
    <<s[1], 2 * s[2], 2 * s[3], 2 * s[4], 2 * s[5], 2 * s[6], s[7], 2 * s[8]>>

NoEvent == [handler |-> "none", exc |-> "none", updated |-> FALSE]

Init ==
    /\ cfg \in Configs
    /\ pc = "configured"
    /\ crash_exc = "none"
    /\ ret_y = <<>>
    /\ ret_success = "running"
    /\ big_array = <<>>
    /\ time_slider = 0
    /\ sizes = <<>>
    /\ node_size = Doubled(practice_sizes)
    /\ button_label = "Play"
    /\ callback_id = 0
    /\ callbacks = {}
    /\ next_id = 0
    /\ last_event = NoEvent
    /\ call_fn = "none"
    /\ call_in = <<>>
    /\ call_out = <<>>
    /\ rk_Load
    /\ cat_Load

UI == <<time_slider, sizes, node_size, button_label, callback_id, callbacks,
        next_id, last_event>>

\* line 165 is reached: solve_ivp evaluates deriv at (0, y0) and, unless
\* that raises, emits the first sample
CallSolveIvp ==
    /\ pc = "configured"
    /\ LET d == deriv(cfg.env, t_eval(0), y0(cfg.init), cfg.args)
       IN  IF d.exc # "none"
           THEN /\ pc' = "crashed"
                /\ crash_exc' = d.exc
                /\ ret_y' = ret_y
           ELSE /\ pc' = "integrating"
                /\ crash_exc' = crash_exc
                /\ ret_y' = <<y0(cfg.init)>>
    /\ UNCHANGED <<cfg, ret_success, big_array, UI, call_vars, dash_vars>>

\* one step of the solver: from the last sample to the next
SolveStep ==
    /\ pc = "integrating"
    /\ Len(ret_y) < NumSamples
    /\ LET k == Len(ret_y)
           d == deriv(cfg.env, t_eval(k - 1), ret_y[k], cfg.args)
       IN  IF d.exc # "none"
           THEN /\ pc' = "crashed"
                /\ crash_exc' = d.exc
                /\ ret_y' = ret_y
           ELSE /\ pc' = pc
                /\ crash_exc' = crash_exc
                /\ ret_y' = Append(ret_y, EulerStep(ret_y[k], d.val))
    /\ UNCHANGED <<cfg, ret_success, big_array, UI, call_vars, dash_vars>>

\* lines 166-218, run after solve_ivp returned: the arrays are unpacked
\* from ret.y whatever ret.success is, the sizes are set to the first
\* sample, the widgets are created and the document is built
ModuleRest ==
    /\ big_array' = ret_y
    /\ time_slider' = 0
    /\ sizes' = Doubled(ret_y[1])
    /\ node_size' = Doubled(ret_y[1])
    /\ button_label' = "Play"
    /\ callback_id' = 0
    /\ pc' = "serving"
    /\ UNCHANGED <<cfg, crash_exc, ret_y, callbacks, next_id, last_event,
                   call_vars, dash_vars>>

\* solve_ivp returns with every sample
SolveDone ==
    /\ pc = "integrating"
    /\ Len(ret_y) = NumSamples
    /\ ret_success' = "yes"
    /\ ModuleRest

\* solve_ivp returns early: the solver could not complete
SolveFail ==
    /\ pc = "integrating"
    /\ Len(ret_y) \in 1..MaxFailAt
    /\ ret_success' = "no"
    /\ ModuleRest

-----------------------------------------------------------------------------
(* The callbacks of the served document.                                   *)

SliderPicks == (0..MaxPick) \cup {NumSamples - 1, SliderEnd}

\* the argument the timer passes to animate_update: the code does not say
\* what calls the callback with; both a call with no argument and a call
\* with a day are modelled
NoArg == [given |-> FALSE, day |-> 0]
TickArgs ==
    {NoArg} \cup {[given |-> TRUE, day |-> n] :
                    n \in {0, AnimateFrom} \cup
                          ((AnimateFrom + 1)..(AnimateFrom + MaxOver))}

\* array[t] of a numpy array holding the samples of big_array
InRange(t) == t >= 0 /\ t < Len(big_array)

\* update_data, lines 177-190, run when time_slider.value changes to v
update_data(v) ==
    /\ pc = "serving"
    /\ v # time_slider
    /\ time_slider' = v
    /\ IF InRange(v)
       THEN /\ sizes' = Doubled(big_array[v + 1])
            /\ node_size' = Doubled(big_array[v + 1])
            /\ last_event' = [handler |-> "update_data", exc |-> "none",
                              updated |-> TRUE]
       ELSE /\ UNCHANGED <<sizes, node_size>>
            /\ last_event' = [handler |-> "update_data", exc |-> "IndexError",
                              updated |-> FALSE]
    /\ UNCHANGED <<cfg, pc, crash_exc, ret_y, ret_success, big_array,
                   button_label, callback_id, callbacks, next_id, call_vars, dash_vars>>

\* animate_update, lines 192-199, run by a registered periodic callback
animate_update(arg) ==
    /\ pc = "serving"
    /\ callbacks # {}
    /\ IF ~arg.given
       THEN /\ UNCHANGED <<sizes, node_size>>
            /\ last_event' = [handler |-> "animate_update",
                              exc |-> "TypeError", updated |-> FALSE]
       ELSE IF arg.day > AnimateFrom
       THEN IF InRange(arg.day)
            THEN /\ sizes' = Doubled(big_array[arg.day + 1])
                 /\ node_size' = Doubled(big_array[arg.day + 1])
                 /\ last_event' = [handler |-> "animate_update",
                                   exc |-> "none", updated |-> TRUE]
            ELSE /\ UNCHANGED <<sizes, node_size>>
                 /\ last_event' = [handler |-> "animate_update",
                                   exc |-> "IndexError", updated |-> FALSE]
       ELSE /\ UNCHANGED <<sizes, node_size>>
            /\ last_event' = [handler |-> "animate_update", exc |-> "none",
                              updated |-> FALSE]
    /\ UNCHANGED <<cfg, pc, crash_exc, ret_y, ret_success, big_array,
                   time_slider, button_label, callback_id, callbacks, next_id,
                   call_vars, dash_vars>>

\* a variant whose click in the Pause state leaves the callback registered
animate_keep ==
    /\ pc = "serving"
    /\ IF button_label = "Play"
       THEN /\ next_id < MaxClicks
            /\ button_label' = "Pause"
            /\ callback_id' = next_id + 1
            /\ callbacks' = callbacks \cup {next_id + 1}
            /\ next_id' = next_id + 1
       ELSE /\ button_label' = "Play"
            /\ UNCHANGED <<callbacks, callback_id, next_id>>
    /\ last_event' = [handler |-> "animate", exc |-> "none",
                      updated |-> FALSE]
    /\ UNCHANGED <<cfg, pc, crash_exc, ret_y, ret_success, big_array,
                   time_slider, sizes, node_size, call_vars, dash_vars>>

\* animate, lines 203-210, run by a click on the button
animate ==
    /\ pc = "serving"
    /\ IF button_label = "Play"
       THEN /\ next_id < MaxClicks
            /\ button_label' = "Pause"
            /\ callback_id' = next_id + 1
            /\ callbacks' = callbacks \cup {next_id + 1}
            /\ next_id' = next_id + 1
       ELSE /\ button_label' = "Play"
            /\ callbacks' = callbacks \ {callback_id}
            /\ UNCHANGED <<callback_id, next_id>>
    /\ last_event' = [handler |-> "animate", exc |-> "none",
                      updated |-> FALSE]
    /\ UNCHANGED <<cfg, pc, crash_exc, ret_y, ret_success, big_array,
                   time_slider, sizes, node_size, call_vars, dash_vars>>

Next ==
    \/ CallSolveIvp
    \/ SolveStep
    \/ SolveDone
    \/ SolveFail
    \/ \E v \in SliderPicks : update_data(v)
    \/ \E arg \in TickArgs : animate_update(arg)
    \/ animate

Spec == Init /\ [][Next]_vars

-----------------------------------------------------------------------------
(* Single calls of the functions of the module.  The inputs of one call    *)
(* are drawn in the initial state; an action makes the call and records    *)
(* what it returned or raised.                                             *)

Zero == <<0, 0, 0, 0, 0, 0, 0, 0>>

CallTimes == {0, 1, t_vac - 1, t_vac, t_vac + 1, Horizon}

\* vac_freq is called at every whole day of the horizon, health_cap_effect
\* at every caseload from 0 to twice the capacity
AllTimes == 0..Horizon
AllCaseloads ==
    {<<0, 0, 0, 0, 0, h, 0, 0>> : h \in 0..(2 * health_capacity)}

Pop == 0..MaxPop

CallStates ==
    {<<s, e, a, b, c, h, r, d>> :
        s \in Pop \cup {S0(Init0)}, e \in Pop, a \in Pop, b \in Pop,
        c \in Pop,
        h \in Pop \cup {health_capacity - 1, health_capacity,
                        health_capacity + 1},
        r \in Pop, d \in Pop}

CallArgs == {Args, NoTransmission(Args), [Args EXCEPT !.sd = 0]}

\* the module namespace at a call of deriv: the literals of lines 110, 116
\* and 118, or the three edited
CallEnvs == {ModuleEnv, [nat_birth |-> 0, v_eff |-> 100, hosp |-> 2 * hosp]}

CallInits ==
    {Init0} \cup
    [N : {N}, Is_nh0 : 0..MaxInit, Is_h0 : 0..MaxInit, Ia_uk0 : 0..MaxInit,
     Ia_k0 : 0..MaxInit, R0 : 0..MaxInit, D0 : 0..MaxInit, E0 : 0..MaxInit]

Pending == [done |-> FALSE, exc |-> "none", val |-> <<>>]
Done(r) == [done |-> TRUE, exc |-> r.exc, val |-> r.val]

InitCalls ==
    /\ cfg = [args |-> Args, init |-> Init0, env |-> ModuleEnv]
    /\ pc = "configured"
    /\ crash_exc = "none"
    /\ ret_y = <<>>
    /\ ret_success = "running"
    /\ big_array = <<>>
    /\ time_slider = 0
    /\ sizes = <<>>
    /\ node_size = Doubled(practice_sizes)
    /\ button_label = "Play"
    /\ callback_id = 0
    /\ callbacks = {}
    /\ next_id = 0
    /\ last_event = NoEvent
    /\ rk_Load
    /\ cat_Load
    /\ call_out = Pending
    /\ \/ /\ call_fn = "deriv"
          /\ call_in \in [t : CallTimes, y : CallStates, args : CallArgs,
                          init : {Init0}, env : CallEnvs]
       \/ /\ call_fn = "vac_freq"
          /\ call_in \in [t : AllTimes, y : {Zero}, args : {Args},
                          init : {Init0}, env : {ModuleEnv}]
       \/ /\ call_fn = "health_cap_effect"
          /\ call_in \in [t : {0}, y : AllCaseloads, args : {Args},
                          init : {Init0}, env : {ModuleEnv}]
       \/ /\ call_fn = "y0"
          /\ call_in \in [t : {0}, y : {Zero}, args : {Args},
                          init : CallInits, env : {ModuleEnv}]

CallDeriv ==
    /\ call_fn = "deriv"
    /\ ~call_out.done
    /\ call_out' = Done(deriv(call_in.env, call_in.t, call_in.y,
                               call_in.args))
    /\ UNCHANGED <<prog_vars, dash_vars, call_fn, call_in>>

CallVacFreq ==
    /\ call_fn = "vac_freq"
    /\ ~call_out.done
    /\ call_out' = Done(Return(vac_freq(call_in.args.t_vac, call_in.t)))
    /\ UNCHANGED <<prog_vars, dash_vars, call_fn, call_in>>

CallHealthCapEffect ==
    /\ call_fn = "health_cap_effect"
    /\ ~call_out.done
    /\ call_out' = Done(health_cap_effect(call_in.args.health_capacity,
                                          call_in.y[6]))
    /\ UNCHANGED <<prog_vars, dash_vars, call_fn, call_in>>

CallY0 ==
    /\ call_fn = "y0"
    /\ ~call_out.done
    /\ call_out' = Done(Return(y0(call_in.init)))
    /\ UNCHANGED <<prog_vars, dash_vars, call_fn, call_in>>

NextCalls == CallDeriv \/ CallVacFreq \/ CallHealthCapEffect \/ CallY0

SpecCalls == InitCalls /\ [][NextCalls]_vars

-----------------------------------------------------------------------------
(* The reaction-kinetics dashboard being served: any slider is moved to    *)
(* any of its values, in any order.                                        *)

InitKinetics ==
    /\ cfg = [args |-> Args, init |-> Init0, env |-> ModuleEnv]
    /\ pc = "configured"
    /\ crash_exc = "none"
    /\ ret_y = <<>>
    /\ ret_success = "running"
    /\ big_array = <<>>
    /\ time_slider = 0
    /\ sizes = <<>>
    /\ node_size = Doubled(practice_sizes)
    /\ button_label = "Play"
    /\ callback_id = 0
    /\ callbacks = {}
    /\ next_id = 0
    /\ last_event = NoEvent
    /\ call_fn = "none"
    /\ call_in = <<>>
    /\ call_out = <<>>
    /\ rk_Load
    /\ cat_Load

NextKinetics ==
    \E w \in DOMAIN rk_sliders :
        \E new \in rk_tried[w] : rk_on_change(w, new)

SpecKinetics == InitKinetics /\ [][NextKinetics]_vars

-----------------------------------------------------------------------------
(* The catalysis dashboard being served: any of the seven controls is set  *)
(* to any of its tried values, in any order.  update_histogram, which the  *)
(* selection of points runs, writes the highlight histograms only and is   *)
(* not modelled.                                                           *)

InitCatalysis == InitKinetics

NextCatalysis ==
    \E c \in DOMAIN cat_tried : \E new \in cat_tried[c] : cat_on_change(c, new)

SpecCatalysis == InitCatalysis /\ [][NextCatalysis]_vars

-----------------------------------------------------------------------------
(* Claims about single calls, checked under SpecCalls.                     *)

DerivCalled == call_fn = "deriv" /\ call_out.done
DerivReturned == DerivCalled /\ call_out.exc = "none"

\* C1: for every well-formed input (t >= 0, eight non-negative compartment
\* values, the reference rates) deriv returns eight derivatives and raises
\* nothing, also when Is_h equals health_capacity.
C1_DerivNeverFails ==
    DerivCalled => call_out.exc = "none" /\ Len(call_out.val) = 8

\* C3: health_cap_effect returns (1, 1) for every Is_h strictly below
\* health_capacity and (1.5, 0.7) for every Is_h strictly above it, whatever
\* the module-level hcd and hcr are.
C3_HealthCapEffectPairs ==
    (call_fn = "health_cap_effect" /\ call_out.done) =>
        /\ call_in.y[6] < call_in.args.health_capacity =>
               call_out = Done(Return(<<10, 10>>))
        /\ call_in.y[6] > call_in.args.health_capacity =>
               call_out = Done(Return(<<15, 7>>))

C3_Witness ==
    /\ call_fn = "health_cap_effect"
    /\ call_out.done
    /\ call_in.y[6] > call_in.args.health_capacity
    /\ call_out.val = <<15, 7>>

\* the step the claim C4 describes: 0 before t_vac, 0.01 from t_vac on
VacStep(p_t_vac, total_time) == IF total_time < p_t_vac THEN 0 ELSE 10000

\* dRdt of a call of deriv less every term of line 157 but the last: the
\* vaccination flow v_freq*v_eff*S that deriv used
VaccinationUsed ==
    call_out.val[7]
    - (call_in.args.gamma * (call_in.y[3] + call_in.y[4] + call_in.y[5]))
    - (call_in.args.gamma_hosp * call_in.y[6])
    + (call_in.args.nat_death * call_in.y[7])
    + (call_in.args.return_rate * call_in.y[7])

\* C4: vac_freq(t_vac, t) is 0 for every t < t_vac and 0.01 for every
\* t >= t_vac (t_vac - 1, t_vac and t_vac + 1 included), and the vaccination
\* flow in deriv is that step value times v_eff times S, not the
\* module-level v_freq.
C4_VaccinationStep ==
    /\ (call_fn = "vac_freq" /\ call_out.done) =>
           call_out.val = VacStep(call_in.args.t_vac, call_in.t)
    /\ DerivReturned =>
           VaccinationUsed * EffDen =
               VacStep(call_in.args.t_vac, call_in.t) * call_in.env.v_eff
                   * call_in.y[1]

C4_Witness ==
    /\ DerivReturned
    /\ call_in.t = call_in.args.t_vac
    /\ call_in.y[1] > 0
    /\ VaccinationUsed > 0

Sum8(y) == y[1] + y[2] + y[3] + y[4] + y[5] + y[6] + y[7] + y[8]

Y0Called == call_fn = "y0" /\ call_out.done

\* C5 as stated: y0 sums to exactly N for every choice of the seven other
\* initial values, and every initial compartment of the reference set other
\* than S and Is_nh is 0.
C5_Original ==
    Y0Called =>
        /\ Sum8(call_out.val) = call_in.init.N
        /\ call_in.init = Init0 =>
               \A i \in 1..8 : i \notin {1, 5} => call_out.val[i] = 0

\* C5 as amended: y0 sums to exactly N for every choice of the seven other
\* initial values, and in the reference set Is_nh and Ia_uk are 1, S is 998
\* and every other compartment is 0.
C5_InitialSum ==
    Y0Called =>
        /\ Sum8(call_out.val) = call_in.init.N
        /\ call_in.init = Init0 =>
               call_out.val = <<998, 0, 1, 0, 1, 0, 0, 0>>

C5_Witness ==
    /\ Y0Called
    /\ call_in.init = Init0
    /\ call_out.val[3] = 1

\* dEdt of a call of deriv plus the outflows of line 152: the new exposures
\* deriv moved from S to E
ExposureUsed ==
    call_out.val[2]
    + (call_in.args.E_to_I_forA * call_in.y[2])
    + (call_in.args.E_to_I_forS * call_in.y[2])
    + (call_in.args.nat_death * call_in.y[2])

\* C8: the new exposures through each of the four contact channels are
\* scaled by sd, so with sd = 0 no new exposures occur in any state.
C8_NoExposureWithoutContact ==
    (DerivReturned /\ call_in.args.sd = 0) => ExposureUsed = 0

-----------------------------------------------------------------------------
(* Claims about the run of the module, checked under Spec.                 *)

NoBeta ==
    /\ cfg.args.beta_S_nh = 0
    /\ cfg.args.beta_S_h = 0
    /\ cfg.args.beta_A_uk = 0
    /\ cfg.args.beta_A_k = 0

\* compartment c of the last sample is at most its value in every earlier one
NotAbove(c) ==
    \A i \in 1..Len(ret_y) : ret_y[Len(ret_y)][c] <= ret_y[i][c]

\* C2 as stated: with the four transmission rates 0, Exposed and the four
\* Infected compartments never increase along the trajectory.
C2_Original == NoBeta => \A c \in 2..6 : NotAbove(c)

\* C2 as amended: with the four transmission rates 0, dEdt is <= 0 in every
\* state the trajectory visits and Exposed never increases along the
\* trajectory (the Infected compartments can).
C2_ExposedNonIncreasing ==
    NoBeta =>
        /\ NotAbove(2)
        /\ \A i \in 1..Len(ret_y) :
               dEdt(t_eval(i - 1), ret_y[i], cfg.args) <= 0

C2_Witness ==
    /\ NoBeta
    /\ Len(ret_y) >= 2
    /\ ret_y[Len(ret_y)][2] < ret_y[1][2]
    /\ ret_y[Len(ret_y)][3] > ret_y[1][3]

\* C6: when the solver cannot complete, the arrays S..D and the displayed
\* sizes are never populated from the unsuccessful result.
C6_NoPartialTrajectory ==
    ret_success = "no" =>
        /\ big_array = <<>>
        /\ sizes = <<>>
        /\ node_size = Doubled(practice_sizes)

\* C7: an invalid configuration is rejected with a configuration error
\* before integration starts; solve_ivp is never called with it.
C7_InvalidConfigRejected ==
    ~ValidConfig(cfg) =>
        /\ pc \in {"configured", "crashed"}
        /\ pc = "crashed" => crash_exc = "ConfigurationError"
        /\ ret_y = <<>>

\* C9: Dead never decreases along the trajectory: dDdt is >= 0 in every
\* state the trajectory visits and D of each sample is >= D of every
\* earlier sample.
C9_DeadNonDecreasing ==
    \A i \in 1..Len(ret_y) :
        /\ (\A c \in 1..8 : ret_y[i][c] >= 0) =>
               dDdt(t_eval(i - 1), ret_y[i], cfg.args) >= 0
        /\ ret_y[i][8] <= ret_y[Len(ret_y)][8]

C9_Witness ==
    /\ pc = "serving"
    /\ \A i \in 1..Len(ret_y) : \A c \in 1..8 : ret_y[i][c] >= 0
    /\ ret_success = "yes"
    /\ Len(ret_y) = NumSamples
    /\ ret_y[NumSamples][8] > ret_y[1][8]

\* C10: every tick of the periodic callback animate_update completes without
\* error and sets the displayed sizes to the sample of a day of the
\* trajectory.
C10_TickShowsSample ==
    last_event.handler = "animate_update" =>
        /\ last_event.exc = "none"
        /\ last_event.updated
        /\ \E day \in 0..(Len(big_array) - 1) :
               node_size = Doubled(big_array[day + 1])


\* C11: deriv is a pure function of (t, state, params): a call changes no
\* module-level variable and its result is determined by the arguments
\* alone, so a call returns what the same arguments return under any other
\* values of the variables that are not arguments, those of the module as
\* written included.
C11_DerivPure ==
    DerivCalled =>
        /\ cfg = [args |-> Args, init |-> Init0, env |-> ModuleEnv]
        /\ call_out = Done(deriv(ModuleEnv, call_in.t, call_in.y,
                                 call_in.args))

\* C12: above health_capacity the death multiplier 1.5 scales
\* death_rate_hosp and the recovery multiplier 0.7 scales gamma_hosp in the
\* hospitalized compartment's derivative; natural death is not scaled.
C12_MultipliersScaleDeathAndRecovery ==
    (DerivReturned /\ call_in.y[6] > call_in.args.health_capacity) =>
        call_out.val[6] * HceDen =
            (HceDen * call_in.env.hosp * call_in.y[5])
            - (HceDen * call_in.args.nat_death * call_in.y[6])
            - (15 * call_in.args.death_rate_hosp * call_in.y[6])
            - (7 * call_in.args.gamma_hosp * call_in.y[6])

\* C13: for every value of the time slider (0 through 365) update_data
\* completes without error and sets the displayed sizes to the sample of
\* the trajectory at the slider value, S and R halved.
C13_SliderValueIsIndex ==
    (last_event.handler = "update_data" /\ ret_success = "yes") =>
        /\ last_event.exc = "none"
        /\ last_event.updated
        /\ InRange(time_slider)
        /\ node_size = Doubled(big_array[time_slider + 1])

\* the curves the current slider values give from the fixed initial
\* concentration
CurrentCurves ==
    odeint(<<ConcDen, 0, 0>>,
           <<rk_value.slider_order_AB, rk_value.slider_order_BC,
             rk_value.slider_k_AB, rk_value.slider_k_BC>>)

\* C14: after any sequence of changes of the five sliders of the
\* reaction-kinetics dashboard the curves on display are the integration
\* from A=1, B=0, C=0 with the current k_AB, k_BC, order_AB and order_BC,
\* and the bars are those curves interpolated at the current value of the
\* time slider, whatever the earlier values and the order of the changes.
C14_DisplayFromCurrentSliders ==
    LET curves == CurrentCurves
    IN  /\ rk_source = curves
        /\ rk_source[1] = <<ConcDen, 0, 0>>
        /\ \A c \in 1..3 :
               source_vbar[c] = interp(rk_value.slider_time,
                                       Column(curves, c))

C14_Witness ==
    /\ rk_value.slider_k_AB # k_AB_start
    /\ rk_value.slider_k_BC # k_BC_start
    /\ rk_value.slider_order_AB # order_AB_start
    /\ rk_value.slider_time > 0
    /\ rk_source # odeint(vec_conc_t0, params)
    /\ source_vbar # vec_conc_t0
    /\ source_vbar[3] > 0

\* the rows of the dataset, by position, that meet the five conditions at
\* the current values of the controls
Passing ==
    {r \in DOMAIN df_catalysis_dataset :
        LET row == df_catalysis_dataset[r]
        IN  /\ row.CH4_conv >= cat_value.slider_methane_conversion
            /\ row.C2y >= cat_value.slider_C2y
            /\ row.Temp >= cat_value.slider_temp
            /\ row.error_ch4_conv <= cat_value.slider_error
            /\ str(row.CH4_O2) = cat_value.select_ch4_to_o2}

\* the k-th position of a set of positions
Kth(S, k) == CHOOSE r \in S : Cardinality({q \in S : q < r}) = k - 1

C16_OneCallback ==
    /\ Cardinality(callbacks) <= 1
    /\ button_label = "Pause" <=> Cardinality(callbacks) = 1
    /\ button_label = "Play" <=> callbacks = {}
    /\ callbacks \subseteq {next_id}
    /\ button_label = "Pause" => callbacks = {callback_id}

C16_Witness ==
    /\ last_event.handler = "animate"
    /\ button_label = "Pause"
    /\ next_id >= 2
    /\ callbacks = {callback_id}

\* C17: the eight derivatives deriv returns sum to nat_birth*(N - D) for
\* every state and time, below and above health_capacity.
C17_DerivativesSumToBirths ==
    DerivReturned =>
        Sum8(call_out.val) =
            call_in.env.nat_birth * (call_in.args.N - call_in.y[8])

=============================================================================
